---- MODULE Spec2Model ----
(***************************************************************************)
(* A model of the RethinkDB plug of ifactoryjs_model                       *)
(* (src/src/plugs/rethink.js, class RethinkPlug, lines 403-1004).          *)
(*                                                                         *)
(* Spec      : the asynchronous life of one plug instance: initCollection, *)
(*             createIndex and the public operations as interleaved        *)
(*             continuations over a FIFO microtask queue, against a        *)
(*             backend that answers commands one at a time.                *)
(* SpecStore : the by-id operations (replaceById, updateById, findById,    *)
(*             removeById) on the stored documents, with the id codec.     *)
(* SpecQuery : find on a table of documents: _queryToCursor, deepMatch and *)
(*             the index-scoped lookup, under a registry of indexes.       *)
(* SpecNaming: createIndex and find by filter over keys of mixed letter    *)
(*             case: index names and the order of the lookup values.       *)
(***************************************************************************)
EXTENDS Integers, Sequences, FiniteSets, TLC

\* ------------------------------------------------------------------ bounds

\* Number of plug calls made during one run.
NumCalls == 2

\* Number of backend commands that may fail with a driver-level error that is
\* not an already-exists conflict (network, permission, ...).
MaxFailures == 1

\* The largest number stored in a document or passed in an object.
MaxNum == 1

\* The largest number of changed paths passed to one updateById call.
MaxChanged == 2

\* The largest number of documents in the table a query runs on.
MaxDocs == 3

\* The largest skipAmount and limitAmount of a query.
MaxSkip == 3
MaxLimit == 2

Procs == 1..NumCalls

\* The collection id every call of the run is about.
Coll == "orders"

\* The index every createIndex call of the run registers: createIndex(Coll,
\* name, {a: ...}), whose generated name is "a"; the filter of every query of
\* the run is on the same key.
IndexKey == "a"

NoFuture == 0

\* ------------------------------------------------------------------- state

VARIABLES
    preparedTables, \* this._preparedTables.get(Coll): the promise stored for the
                    \* collection, named by the call that created it, or NoFuture
    indexes,        \* this._indexes.get(Coll): the registered index names
    futState,       \* per call: the state of the readiness promise it created
    op,             \* per call: the public method called
    pc,             \* per call: where the method is suspended
    outcome,        \* per call: the promise the method returned to its caller
    inflight,       \* per call: the backend command it is waiting for
    awaited,        \* per call: the readiness promise _getTable awaits
    waiters,        \* per readiness promise: the calls suspended on it, in order
    microQ,         \* the microtask queue: continuations ready to run
    tableExists,    \* backend: the table exists
    tableReady,     \* backend: a wait() on the table has completed
    backendIndex,   \* backend: the index is "none", "building" or "ready"
    extCreated,     \* another client of the backend has created the table
    failures,       \* driver-level failures injected so far
    createCalls,    \* history: tableCreate commands issued to the backend
    futuresMade,    \* history: readiness promises stored in _preparedTables
    otherFailure,   \* history, per call: a command of the call failed with an
                    \* error that is not an already-exists conflict
    existsErr,      \* history, per call: the backend reported already-exists
    sentPending,    \* history, per call: a table command was sent while the
                    \* stored readiness promise was still pending
    lookupUnbuilt,  \* history, per call: an index-scoped lookup was sent for
                    \* an index the backend had not finished building
    table,          \* backend: the documents of the table, in storage order
    indexFields,    \* backend: index name -> the fields the index was built on
    call,           \* the last data operation called, with its arguments
    result,         \* what the last findById / find returned
    written         \* the record of the last replaceById, while no later
                    \* operation has changed its document

plugVars == <<preparedTables, indexes, futState, op, pc, outcome, inflight,
              awaited, waiters, microQ>>
backendVars == <<tableExists, tableReady, backendIndex, extCreated, failures>>
historyVars == <<createCalls, futuresMade, otherFailure, existsErr,
                 sentPending, lookupUnbuilt>>
asyncVars == <<plugVars, backendVars, historyVars>>
\* Everything of the asynchronous life but the index registry.
asyncRest == <<preparedTables, futState, op, pc, outcome, inflight, awaited,
               waiters, microQ, backendVars, historyVars>>
dataVars == <<table, indexFields, call, result, written>>

vars == <<asyncVars, dataVars>>

\* ---------------------------------------------------------------- helpers

\* The public methods. "find" stands for the methods that go through
\* _queryToCursor after awaiting _building (find, findOne, count, remove),
\* "findById" for those that call _getTable themselves (findById, removeById,
\* replaceById, updateById, insert), "sum" for sum, which does not await
\* _building.
OpKinds == {"initCollection", "createIndex", "find", "findById", "sum"}

\* rethink.js 577-586: the readiness closure's next step after the backend
\* answered command cmd with res ("true"/"false" for tableList, "ok", "error").
ReadyClosure_NoWait(cmd, res) ==
    CASE res = "error"       -> "rejected"
      [] cmd = "tableList"   -> IF res = "true" THEN "resolved" ELSE "tableCreate"
      [] cmd = "tableCreate" -> "resolved"
      [] OTHER               -> "resolved"

ReadyClosure(cmd, res) ==
    CASE res = "error"       -> "rejected"
      [] cmd = "tableList"   -> IF res = "true" THEN "wait" ELSE "tableCreate"
      [] cmd = "tableCreate" -> "wait"
      [] OTHER               -> "resolved"

\* rethink.js 696: the planner's test for an index-scoped lookup on the first
\* operation of a descriptor.
UsesIndex(name) == name \in indexes

\* The stored readiness promise is pending: what a command against the table
\* must not overlap with.
ReadinessPending ==
    preparedTables # NoFuture /\ futState[preparedTables] = "pending"

\* ------------------------------------------------------------------- Init

InitAsync ==
    /\ preparedTables = NoFuture
    /\ indexes = {}
    /\ futState = [p \in Procs |-> "none"]
    /\ op = [p \in Procs |-> "none"]
    /\ pc = [p \in Procs |-> "idle"]
    /\ outcome = [p \in Procs |-> "none"]
    /\ inflight = [p \in Procs |-> "none"]
    /\ awaited = [p \in Procs |-> NoFuture]
    /\ waiters = [p \in Procs |-> <<>>]
    /\ microQ = <<>>
    /\ tableExists \in BOOLEAN
    /\ tableReady = FALSE
    /\ backendIndex \in (IF tableExists THEN {"none", "ready"} ELSE {"none"})
    /\ extCreated = FALSE
    /\ failures = 0
    /\ createCalls = 0
    /\ futuresMade = 0
    /\ otherFailure = [p \in Procs |-> FALSE]
    /\ existsErr = [p \in Procs |-> FALSE]
    /\ sentPending = [p \in Procs |-> FALSE]
    /\ lookupUnbuilt = [p \in Procs |-> FALSE]

\* No data operation has been called: an empty table, nothing returned.
NoCall == [op |-> "none", id |-> [t |-> "null", n |-> 0, s |-> "", fl |-> "", o |-> <<>>],
           object |-> <<>>, changed |-> {}, query |-> <<>>, badKey |-> "none",
           before |-> [found |-> FALSE, doc |-> <<>>]]
NoResult == [kind |-> "none",
             rec |-> [found |-> FALSE,
                      id |-> [t |-> "null", n |-> 0, s |-> "", fl |-> "", o |-> <<>>],
                      object |-> <<>>],
             recs |-> <<>>, plan |-> <<>>]
NoWritten == [valid |-> FALSE,
              id |-> [t |-> "null", n |-> 0, s |-> "", fl |-> "", o |-> <<>>],
              object |-> <<>>]

InitData ==
    /\ table = <<>>
    /\ indexFields = <<>>
    /\ call = NoCall
    /\ result = NoResult
    /\ written = NoWritten

Init == InitAsync /\ InitData

\* ------------------------------------------------- _getTable (651-656)

\* await this._preparedTables.get(tableName): a pending promise suspends the
\* call until it settles; a settled promise, or no entry at all (await
\* undefined), continues on the next microtask. q is the microtask queue
\* without the continuation that is running.
GetTable(p, q) ==
    /\ awaited' = [awaited EXCEPT ![p] = preparedTables]
    /\ pc' = [pc EXCEPT ![p] = "getTable"]
    /\ IF ReadinessPending
         THEN /\ waiters' = [waiters EXCEPT ![preparedTables] = Append(@, p)]
              /\ microQ' = q
         ELSE /\ waiters' = waiters
              /\ microQ' = Append(q, p)

\* ------------------------------------------------------- the public calls

\* initCollection, 570-574: the has() test and the await of _building.
CallInitCollection(p) ==
    /\ UNCHANGED dataVars
    /\ pc[p] = "idle"
    /\ op' = [op EXCEPT ![p] = "initCollection"]
    /\ IF preparedTables # NoFuture
         THEN /\ pc' = [pc EXCEPT ![p] = "done"]
              /\ outcome' = [outcome EXCEPT ![p] = "ok"]
              /\ microQ' = microQ
         ELSE /\ pc' = [pc EXCEPT ![p] = "building"]
              /\ outcome' = outcome
              /\ microQ' = Append(microQ, p)
    /\ UNCHANGED <<preparedTables, indexes, futState, inflight, awaited, waiters>>
    /\ UNCHANGED <<backendVars, historyVars>>

\* createIndex, 589-604: the name is registered before anything is awaited.
CallCreateIndex(p) ==
    /\ UNCHANGED dataVars
    /\ pc[p] = "idle"
    /\ op' = [op EXCEPT ![p] = "createIndex"]
    /\ indexes' = indexes \cup {IndexKey}
    /\ pc' = [pc EXCEPT ![p] = "building"]
    /\ microQ' = Append(microQ, p)
    /\ UNCHANGED <<preparedTables, futState, outcome, inflight, awaited, waiters>>
    /\ UNCHANGED <<backendVars, historyVars>>

\* find, findOne, count, remove (859-926) and findById, removeById,
\* replaceById, updateById, insert (842-1000): await this._building.
CallOperation(p) ==
    /\ UNCHANGED dataVars
    /\ pc[p] = "idle"
    /\ \E kind \in {"find", "findById"} : op' = [op EXCEPT ![p] = kind]
    /\ pc' = [pc EXCEPT ![p] = "building"]
    /\ microQ' = Append(microQ, p)
    /\ UNCHANGED <<preparedTables, indexes, futState, outcome, inflight, awaited,
                   waiters>>
    /\ UNCHANGED <<backendVars, historyVars>>

\* sum, 898-901: _queryToCursor is entered at once, and it awaits _getTable.
CallSum(p) ==
    /\ UNCHANGED dataVars
    /\ pc[p] = "idle"
    /\ op' = [op EXCEPT ![p] = "sum"]
    /\ GetTable(p, microQ)
    /\ UNCHANGED <<preparedTables, indexes, futState, outcome, inflight>>
    /\ UNCHANGED <<backendVars, historyVars>>

\* ------------------------------------------------- microtask continuations

\* initCollection, 576-587: store the promise of the readiness closure, which
\* runs to its first await (the tableList command); the method returns.
ResumeInitCollection(p) ==
    /\ UNCHANGED dataVars
    /\ microQ # <<>> /\ Head(microQ) = p
    /\ pc[p] = "building" /\ op[p] = "initCollection"
    /\ preparedTables' = p
    /\ futState' = [futState EXCEPT ![p] = "pending"]
    /\ futuresMade' = futuresMade + 1
    /\ inflight' = [inflight EXCEPT ![p] = "tableList"]
    /\ outcome' = [outcome EXCEPT ![p] = "ok"]
    /\ pc' = [pc EXCEPT ![p] = "closure"]
    /\ microQ' = Tail(microQ)
    /\ UNCHANGED <<indexes, op, awaited, waiters>>
    /\ UNCHANGED <<backendVars, createCalls, otherFailure, existsErr, sentPending,
                   lookupUnbuilt>>

\* createIndex, 606-615: the indexCreate command is sent on R.table(id)
\* directly, without _getTable.
ResumeCreateIndex(p) ==
    /\ UNCHANGED dataVars
    /\ microQ # <<>> /\ Head(microQ) = p
    /\ pc[p] = "building" /\ op[p] = "createIndex"
    /\ inflight' = [inflight EXCEPT ![p] = "indexCreate"]
    /\ pc' = [pc EXCEPT ![p] = "run"]
    /\ sentPending' = [sentPending EXCEPT ![p] = ReadinessPending]
    /\ microQ' = Tail(microQ)
    /\ UNCHANGED <<preparedTables, indexes, futState, op, outcome, awaited, waiters>>
    /\ UNCHANGED <<backendVars, createCalls, futuresMade, otherFailure, existsErr,
                   lookupUnbuilt>>

\* The operations after await this._building: _getTable, directly or through
\* _queryToCursor (685).
ResumeOperation(p) ==
    /\ UNCHANGED dataVars
    /\ microQ # <<>> /\ Head(microQ) = p
    /\ pc[p] = "building" /\ op[p] \in {"find", "findById"}
    /\ GetTable(p, Tail(microQ))
    /\ UNCHANGED <<preparedTables, indexes, futState, op, outcome, inflight>>
    /\ UNCHANGED <<backendVars, historyVars>>

\* The command an operation sends once it holds the table: through
\* _queryToCursor (691-713) an index-scoped lookup when the first operation's
\* candidate name is registered, a scan otherwise; a get by id for the rest.
CommandOf(kind) ==
    IF kind \in {"find", "sum"}
      THEN (IF UsesIndex(IndexKey) THEN "getAll" ELSE "filter")
      ELSE "get"

\* _getTable returns (655): a rejected readiness promise throws into the
\* operation, otherwise the operation builds its cursor and runs it.
ResumeGetTable(p) ==
    /\ UNCHANGED dataVars
    /\ microQ # <<>> /\ Head(microQ) = p
    /\ pc[p] = "getTable"
    /\ microQ' = Tail(microQ)
    /\ IF awaited[p] # NoFuture /\ futState[awaited[p]] = "rejected"
         THEN /\ pc' = [pc EXCEPT ![p] = "done"]
              /\ outcome' = [outcome EXCEPT ![p] = "failed"]
              /\ UNCHANGED <<inflight, sentPending, lookupUnbuilt>>
         ELSE /\ pc' = [pc EXCEPT ![p] = "run"]
              /\ inflight' = [inflight EXCEPT ![p] = CommandOf(op[p])]
              /\ sentPending' = [sentPending EXCEPT ![p] = ReadinessPending]
              /\ lookupUnbuilt' = [lookupUnbuilt EXCEPT ![p] =
                     CommandOf(op[p]) = "getAll" /\ backendIndex # "ready"]
              /\ outcome' = outcome
    /\ UNCHANGED <<preparedTables, indexes, futState, op, awaited, waiters>>
    /\ UNCHANGED <<backendVars, createCalls, futuresMade, otherFailure, existsErr>>

\* ------------------------------------------------------ the backend answers
\* A backend answer is an I/O callback: it runs when the microtask queue has
\* drained. The command takes effect at the backend and the suspended code
\* runs to its next await in the same step.

\* The readiness closure (577-586) moves to step: the next command, or the
\* settling of its promise, which releases the calls suspended on it.
ClosureGoes(p, step) ==
    IF step \in {"resolved", "rejected"}
      THEN /\ futState' = [futState EXCEPT ![p] = step]
           /\ inflight' = [inflight EXCEPT ![p] = "none"]
           /\ pc' = [pc EXCEPT ![p] = "done"]
           /\ microQ' = microQ \o waiters[p]
           /\ waiters' = [waiters EXCEPT ![p] = <<>>]
           /\ createCalls' = createCalls
      ELSE /\ inflight' = [inflight EXCEPT ![p] = step]
           /\ createCalls' = createCalls + (IF step = "tableCreate" THEN 1 ELSE 0)
           /\ UNCHANGED <<futState, pc, microQ, waiters>>

\* 579: R.tableList().contains(collectionId).
AnswerTableList(p) ==
    /\ UNCHANGED dataVars
    /\ microQ = <<>> /\ inflight[p] = "tableList"
    /\ ClosureGoes(p, ReadyClosure("tableList",
                                   IF tableExists THEN "true" ELSE "false"))
    /\ UNCHANGED <<preparedTables, indexes, op, outcome, awaited>>
    /\ UNCHANGED <<backendVars, futuresMade, otherFailure, existsErr, sentPending,
                   lookupUnbuilt>>

\* 582: R.tableCreate(collectionId); the backend refuses a table that exists.
AnswerTableCreate(p) ==
    /\ UNCHANGED dataVars
    /\ microQ = <<>> /\ inflight[p] = "tableCreate"
    /\ IF tableExists
         THEN /\ existsErr' = [existsErr EXCEPT ![p] = TRUE]
              /\ ClosureGoes(p, ReadyClosure("tableCreate", "error"))
              /\ tableExists' = tableExists
         ELSE /\ tableExists' = TRUE
              /\ ClosureGoes(p, ReadyClosure("tableCreate", "ok"))
              /\ existsErr' = existsErr
    /\ UNCHANGED <<preparedTables, indexes, op, outcome, awaited>>
    /\ UNCHANGED <<tableReady, backendIndex, extCreated, failures>>
    /\ UNCHANGED <<futuresMade, otherFailure, sentPending, lookupUnbuilt>>

\* 585: R.table(collectionId).wait().
AnswerWait(p) ==
    /\ UNCHANGED dataVars
    /\ microQ = <<>> /\ inflight[p] = "wait"
    /\ tableExists
    /\ tableReady' = TRUE
    /\ ClosureGoes(p, ReadyClosure("wait", "ok"))
    /\ UNCHANGED <<preparedTables, indexes, op, outcome, awaited>>
    /\ UNCHANGED <<tableExists, backendIndex, extCreated, failures>>
    /\ UNCHANGED <<futuresMade, otherFailure, existsErr, sentPending, lookupUnbuilt>>

\* 606-619: indexCreate. Whatever the backend answers (created, index exists,
\* table missing) the catch block discards it and indexWait is sent.
AnswerIndexCreate(p) ==
    /\ UNCHANGED dataVars
    /\ microQ = <<>> /\ inflight[p] = "indexCreate"
    /\ inflight' = [inflight EXCEPT ![p] = "indexWait"]
    /\ IF ~tableExists
         THEN /\ otherFailure' = [otherFailure EXCEPT ![p] = TRUE]
              /\ UNCHANGED <<backendIndex, existsErr>>
         ELSE IF backendIndex # "none"
           THEN /\ existsErr' = [existsErr EXCEPT ![p] = TRUE]
                /\ UNCHANGED <<backendIndex, otherFailure>>
           ELSE /\ backendIndex' = "building"
                /\ UNCHANGED <<existsErr, otherFailure>>
    /\ UNCHANGED <<preparedTables, indexes, futState, op, pc, outcome, awaited,
                   waiters, microQ>>
    /\ UNCHANGED <<tableExists, tableReady, extCreated, failures>>
    /\ UNCHANGED <<createCalls, futuresMade, sentPending, lookupUnbuilt>>

\* 619: indexWait answers once the index is built, and fails when the table
\* or the index does not exist; its failure is createIndex's failure.
AnswerIndexWait(p) ==
    /\ UNCHANGED dataVars
    /\ microQ = <<>> /\ inflight[p] = "indexWait"
    /\ backendIndex # "building"
    /\ inflight' = [inflight EXCEPT ![p] = "none"]
    /\ pc' = [pc EXCEPT ![p] = "done"]
    /\ IF tableExists /\ backendIndex = "ready"
         THEN /\ outcome' = [outcome EXCEPT ![p] = "ok"]
              /\ otherFailure' = otherFailure
         ELSE /\ outcome' = [outcome EXCEPT ![p] = "failed"]
              /\ otherFailure' = [otherFailure EXCEPT ![p] = TRUE]
    /\ UNCHANGED <<preparedTables, indexes, futState, op, awaited, waiters, microQ>>
    /\ UNCHANGED <<backendVars>>
    /\ UNCHANGED <<createCalls, futuresMade, existsErr, sentPending, lookupUnbuilt>>

\* The run of an operation's cursor (663, 674, 850, 892, 900, 914, 925, 945,
\* 982, 996): it fails on a missing table and on an index that is not built.
AnswerRun(p) ==
    /\ UNCHANGED dataVars
    /\ microQ = <<>> /\ inflight[p] \in {"getAll", "filter", "get"}
    /\ inflight' = [inflight EXCEPT ![p] = "none"]
    /\ pc' = [pc EXCEPT ![p] = "done"]
    /\ IF tableExists /\ (inflight[p] = "getAll" => backendIndex = "ready")
         THEN /\ outcome' = [outcome EXCEPT ![p] = "ok"]
              /\ otherFailure' = otherFailure
         ELSE /\ outcome' = [outcome EXCEPT ![p] = "failed"]
              /\ otherFailure' = [otherFailure EXCEPT ![p] = TRUE]
    /\ UNCHANGED <<preparedTables, indexes, futState, op, awaited, waiters, microQ>>
    /\ UNCHANGED <<backendVars>>
    /\ UNCHANGED <<createCalls, futuresMade, existsErr, sentPending, lookupUnbuilt>>

\* A command fails with a driver-level error that is no already-exists
\* conflict. In the readiness closure nothing catches it: the promise rejects
\* (577-586). In createIndex the catch block of 607-616 discards the failure of
\* indexCreate. Everywhere else the awaiting method throws.
AnswerFailure(p) ==
    /\ UNCHANGED dataVars
    /\ microQ = <<>> /\ inflight[p] # "none"
    /\ failures < MaxFailures
    /\ failures' = failures + 1
    /\ otherFailure' = [otherFailure EXCEPT ![p] = TRUE]
    /\ IF inflight[p] \in {"tableList", "tableCreate", "wait"}
         THEN /\ ClosureGoes(p, ReadyClosure(inflight[p], "error"))
              /\ outcome' = outcome
         ELSE IF inflight[p] = "indexCreate"
           THEN /\ inflight' = [inflight EXCEPT ![p] = "indexWait"]
                /\ UNCHANGED <<futState, pc, outcome, waiters, microQ, createCalls>>
           ELSE /\ inflight' = [inflight EXCEPT ![p] = "none"]
                /\ pc' = [pc EXCEPT ![p] = "done"]
                /\ outcome' = [outcome EXCEPT ![p] = "failed"]
                /\ UNCHANGED <<futState, waiters, microQ, createCalls>>
    /\ UNCHANGED <<preparedTables, indexes, op, awaited>>
    /\ UNCHANGED <<tableExists, tableReady, backendIndex, extCreated>>
    /\ UNCHANGED <<futuresMade, existsErr, sentPending, lookupUnbuilt>>

\* The backend finishes building the index.
IndexBuilt ==
    /\ UNCHANGED dataVars
    /\ backendIndex = "building"
    /\ backendIndex' = "ready"
    /\ UNCHANGED <<plugVars, historyVars>>
    /\ UNCHANGED <<tableExists, tableReady, extCreated, failures>>

\* Another client of the same database creates the table.
ExternalCreate ==
    /\ UNCHANGED dataVars
    /\ ~tableExists /\ ~extCreated
    /\ tableExists' = TRUE
    /\ extCreated' = TRUE
    /\ UNCHANGED <<plugVars, historyVars>>
    /\ UNCHANGED <<tableReady, backendIndex, failures>>

\* ------------------------------------------------------------------- Spec

Next ==
    \/ \E p \in Procs : CallInitCollection(p)
    \/ \E p \in Procs : CallCreateIndex(p)
    \/ \E p \in Procs : CallOperation(p)
    \/ \E p \in Procs : CallSum(p)
    \/ \E p \in Procs : ResumeInitCollection(p)
    \/ \E p \in Procs : ResumeCreateIndex(p)
    \/ \E p \in Procs : ResumeOperation(p)
    \/ \E p \in Procs : ResumeGetTable(p)
    \/ \E p \in Procs : AnswerTableList(p)
    \/ \E p \in Procs : AnswerTableCreate(p)
    \/ \E p \in Procs : AnswerWait(p)
    \/ \E p \in Procs : AnswerIndexCreate(p)
    \/ \E p \in Procs : AnswerIndexWait(p)
    \/ \E p \in Procs : AnswerRun(p)
    \/ \E p \in Procs : AnswerFailure(p)
    \/ IndexBuilt
    \/ ExternalCreate

Spec == Init /\ [][Next]_vars

\* ======================================================================
\* The data: values, documents, the id codec and the by-id operations.
\* ======================================================================

\* A JavaScript object is a function from its own keys to values; a missing
\* key is what JavaScript reads as undefined. A value is null, a number, a
\* string, a nested object or (in a filter only) a regular expression.
NoFields == <<>>
Null == [t |-> "null", n |-> 0, s |-> "", fl |-> "", o |-> NoFields]
Num(i) == [t |-> "num", n |-> i, s |-> "", fl |-> "", o |-> NoFields]
Str(x) == [t |-> "str", n |-> 0, s |-> x, fl |-> "", o |-> NoFields]
Obj(f) == [t |-> "obj", n |-> 0, s |-> "", fl |-> "", o |-> f]
RegExp(src, flags) == [t |-> "re", n |-> 0, s |-> src, fl |-> flags, o |-> NoFields]

Has(obj, k) == k \in DOMAIN obj
Without(obj, ks) == [k \in (DOMAIN obj) \ ks |-> obj[k]]
With(obj, k, v) == [x \in (DOMAIN obj) \cup {k} |-> IF x = k THEN v ELSE obj[x]]

\* swapKeys, 432-450. (val != null) is false for null and for undefined.
swapKeys(key1, key2, obj) ==
    LET val1 == IF Has(obj, key1) THEN obj[key1] ELSE Null
        val2 == IF Has(obj, key2) THEN obj[key2] ELSE Null
        deleted == Without(obj, {key1, key2})
        swapped1 == IF val1 # Null THEN With(deleted, key2, val1) ELSE deleted
    IN  IF val2 # Null THEN With(swapped1, key1, val2) ELSE swapped1

\* A document read from the backend, or none (null).
NoRaw == [found |-> FALSE, doc |-> NoFields]
Raw(d) == [found |-> TRUE, doc |-> d]

\* What findById returns: a model record {id, object}, or null.
NullRecord == [found |-> FALSE, id |-> Null, object |-> NoFields]

\* _handleRawModel, 819-837.
HandleRawModel_KeepId(raw) ==
    IF ~raw.found THEN NullRecord
    ELSE LET object == swapKeys("id", "_id", raw.doc)
         IN  [found |-> TRUE,
              id |-> IF Has(object, "_id") THEN object["_id"] ELSE Null,
              object |-> object]

HandleRawModel(raw) ==
    IF ~raw.found THEN NullRecord
    ELSE LET object == swapKeys("id", "_id", raw.doc)
         IN  [found |-> TRUE,
              id |-> IF Has(object, "_id") THEN object["_id"] ELSE Null,
              object |-> Without(object, {"_id"})]

\* ------------------------------------------- the backend's table commands

\* The positions of the documents whose primary key is id (at most one).
Positions(t, id) == {i \in 1..Len(t) : t[i]["id"] = id}

\* table.get(id)
TableGet(t, id) ==
    IF Positions(t, id) = {} THEN NoRaw
    ELSE Raw(t[CHOOSE i \in Positions(t, id) : TRUE])

\* table.get(id).replace(doc): the document is replaced, or inserted when
\* there is none; the backend refuses a document whose primary key is
\* missing or differs from id and leaves the table as it is.
TableReplace(t, id, doc) ==
    IF ~Has(doc, "id") \/ doc["id"] # id THEN t
    ELSE IF Positions(t, id) = {} THEN Append(t, doc)
    ELSE [i \in 1..Len(t) |-> IF i \in Positions(t, id) THEN doc ELSE t[i]]

\* The backend's merge of update(): the fields of new are written over old;
\* where both hold a nested object the nested objects are merged in turn.
RECURSIVE DeepMerge(_, _)
DeepMerge(old, new) ==
    [k \in (DOMAIN old) \cup (DOMAIN new) |->
        IF ~Has(new, k) THEN old[k]
        ELSE IF Has(old, k) /\ old[k].t = "obj" /\ new[k].t = "obj"
          THEN Obj(DeepMerge(old[k].o, new[k].o))
          ELSE new[k]]

\* table.get(id).update(obj): merged into the stored document; nothing
\* happens when there is none.
TableUpdate(t, id, obj) ==
    [i \in 1..Len(t) |->
        IF i \in Positions(t, id) THEN DeepMerge(t[i], obj) ELSE t[i]]

\* table.get(id).replace(R.row.without(key)): the backend refuses to drop
\* the primary key, and has nothing to replace when there is no document.
TableWithout(t, id, key) ==
    [i \in 1..Len(t) |->
        IF i \in Positions(t, id) /\ key # "id"
          THEN Without(t[i], {key}) ELSE t[i]]

\* table.get(id).delete()
TableDelete(t, id) == SelectSeq(t, LAMBDA d : d["id"] # id)

\* ------------------------------------------------- the by-id operations

\* replaceById, 931-946: the document sent to the backend.
ReplaceDoc(id, newObject) == With(swapKeys("id", "_id", newObject), "id", id)

\* updateById, 959: the first segment of every changed path. A path is kept
\* as the sequence of its dot-separated segments.
TopLevelUpdates(updates) == {u[1] : u \in updates}

\* updateById, 965-973: the keys whose field is removed, those that the new
\* object leaves undefined (or null: the test is != undefined).
RemovedKeys_None(newObject, updates) == {}

RemovedKeys(newObject, updates) ==
    {k \in TopLevelUpdates(updates) : ~Has(newObject, k) \/ newObject[k] = Null}

RECURSIVE WithoutAll(_, _, _)
WithoutAll(t, id, keys) ==
    IF keys = {} THEN t
    ELSE LET k == CHOOSE x \in keys : TRUE
         IN  WithoutAll(TableWithout(t, id, k), id, keys \ {k})

\* updateById, 951-983: the removals, then the update with the whole new
\* object, id keys swapped and the primary key forced.
UpdatedTable(t, id, newObject, updates) ==
    TableUpdate(WithoutAll(t, id, RemovedKeys(newObject, updates)), id,
                With(swapKeys("id", "_id", newObject), "id", id))


\* ---------------------------------------------------------- SpecStore
\* One caller runs the by-id operations to completion, one after the other,
\* on a table that is ready.

ModelIds == {Str("m1")}

Nums == 1..MaxNum

\* The values an object passed to replaceById / updateById may hold per key:
\* the caller's own id fields, a field that may be null, a number or a nested
\* object, and a plain number field.
StoreValues(k) ==
    CASE k = "id"  -> {Str("u")}
      [] k = "_id" -> {Str("v")}
      [] k = "a"   -> {Null, Num(1), Obj([x \in {"p"} |-> Num(1)]),
                       Obj([x \in {"q"} |-> Num(1)])}
      [] OTHER     -> {Num(i) : i \in Nums}

ObjectsOver(keys) ==
    UNION {{f \in [K -> UNION {StoreValues(k) : k \in keys}] :
               \A k \in K : f[k] \in StoreValues(k)} : K \in SUBSET keys}

\* The objects passed to replaceById / updateById: plain payloads over "a"
\* and "b", and payloads that use the id field names themselves.
StoreObjects == ObjectsOver({"a", "b"}) \cup ObjectsOver({"id", "_id"})

\* The changed paths updateById is told about, as sequences of segments:
\* "a.p", "b" and "_id".
ChangedPaths == {<<"a", "p">>, <<"b">>, <<"_id">>}

ChangedSets == {u \in SUBSET ChangedPaths : Cardinality(u) <= MaxChanged}

InitStore ==
    /\ InitAsync /\ tableExists /\ backendIndex = "none"
    /\ InitData

\* replaceById, 931-946.
ReplaceById(id, newObject) ==
    /\ table' = TableReplace(table, id, ReplaceDoc(id, newObject))
    /\ call' = [NoCall EXCEPT !.op = "replaceById", !.id = id,
                               !.object = newObject, !.before = TableGet(table, id)]
    /\ written' = [valid |-> TRUE, id |-> id, object |-> newObject]
    /\ result' = NoResult
    /\ UNCHANGED <<indexFields, asyncVars>>

\* updateById, 951-983.
UpdateById(id, newObject, updates) ==
    /\ table' = UpdatedTable(table, id, newObject, updates)
    /\ call' = [NoCall EXCEPT !.op = "updateById", !.id = id,
                               !.object = newObject, !.changed = updates,
                               !.before = TableGet(table, id)]
    /\ written' = NoWritten
    /\ result' = NoResult
    /\ UNCHANGED <<indexFields, asyncVars>>

\* findById, 842-854.
FindById(id) ==
    /\ result' = [NoResult EXCEPT !.kind = "record",
                                  !.rec = HandleRawModel(TableGet(table, id))]
    /\ call' = [NoCall EXCEPT !.op = "findById", !.id = id,
                               !.before = TableGet(table, id)]
    /\ UNCHANGED <<table, written, indexFields, asyncVars>>

\* removeById, 906-915.
RemoveById(id) ==
    /\ table' = TableDelete(table, id)
    /\ call' = [NoCall EXCEPT !.op = "removeById", !.id = id,
                               !.before = TableGet(table, id)]
    /\ written' = NoWritten
    /\ result' = NoResult
    /\ UNCHANGED <<indexFields, asyncVars>>

NextStore ==
    \/ \E id \in ModelIds, o \in StoreObjects : ReplaceById(id, o)
    \/ \E id \in ModelIds, o \in StoreObjects, u \in ChangedSets :
          UpdateById(id, o, u)
    \/ \E id \in ModelIds : FindById(id)
    \/ \E id \in ModelIds : RemoveById(id)

SpecStore == InitStore /\ [][NextStore]_vars


\* ======================================================================
\* Queries: deepMatch, the index-scoped lookup and _queryToCursor.
\* ======================================================================

\* An object literal whose key order matters (a filter, the keyMap given to
\* createIndex) is the sequence of its entries in insertion order.
Entry(k, v) == [k |-> k, v |-> v]
KeysOf(entries) == [i \in 1..Len(entries) |-> entries[i].k]

\* The keys of the model in the order of Array.prototype.sort() (UTF-16 code
\* units: upper case before lower case) and in the order of
\* String.prototype.localeCompare (lower case before upper case of the same
\* letter).
AllKeys == {"B", "_id", "a", "b", "id"}
CodeUnitRank == [k \in AllKeys |->
    CASE k = "B" -> 1 [] k = "_id" -> 2 [] k = "a" -> 3 [] k = "b" -> 4 [] OTHER -> 5]
LocaleRank == [k \in AllKeys |->
    CASE k = "_id" -> 1 [] k = "a" -> 2 [] k = "b" -> 3 [] k = "B" -> 4 [] OTHER -> 5]

\* Insertion of an entry into a sequence of entries sorted by the rank of
\* their keys.
RECURSIVE InsertSorted(_, _, _)
InsertSorted(e, sorted, rank) ==
    IF sorted = <<>> THEN <<e>>
    ELSE IF rank[e.k] < rank[Head(sorted).k] THEN <<e>> \o sorted
    ELSE <<Head(sorted)>> \o InsertSorted(e, Tail(sorted), rank)

RECURSIVE SortBy(_, _)
SortBy(entries, rank) ==
    IF entries = <<>> THEN <<>>
    ELSE InsertSorted(entries[Len(entries)],
                      SortBy(SubSeq(entries, 1, Len(entries) - 1), rank), rank)

\* Array.prototype.join('+').
RECURSIVE Join(_)
Join(keys) ==
    IF keys = <<>> THEN ""
    ELSE IF Len(keys) = 1 THEN keys[1]
    ELSE keys[1] \o "+" \o Join(Tail(keys))

\* Object.keys(obj).sort(), 593 and 693.
SortedKeys(entries) == KeysOf(SortBy(entries, CodeUnitRank))

\* Object.keys(obj).sort().join('+'), 593 and 693.
RethinkIndexName(entries) == Join(SortedKeys(entries))

\* dotPropRethinkKey, 455-480, for a key of one segment: the field of the
\* native document the key reads, "id" and "_id" exchanged.
DotPropRethinkKey(key) ==
    IF key = "id" THEN "_id" ELSE IF key = "_id" THEN "id" ELSE key

\* regexToGoodString, 414-427.
RegexToGoodString(re) ==
    (IF re.fl # "" THEN "(?" \o re.fl \o ")" ELSE "") \o re.s

\* The backend's match of a string against a pattern, for the patterns and
\* the strings of the model.
ReMatch(pattern, str) ==
    <<pattern, str>> \in {<<"(?i)^A", "alice">>, <<"^b", "bob">>}

\* A predicate of the backend evaluated on one document: "true", "false",
\* "missing" (a non-existence error: filter() drops the document, and() and
\* or() pass the error on) or "error" (a type error, which fails the query).

\* deepMatch, 485-510: the predicate of one entry.
EntryMatch(doc, e) ==
    LET field == DotPropRethinkKey(e.k)
    IN  IF e.v.t = "re"
          THEN IF ~Has(doc, field) THEN "missing"
               ELSE IF doc[field].t # "str" THEN "error"
               ELSE IF ReMatch(RegexToGoodString(e.v), doc[field].s)
                 THEN "true" ELSE "false"
          ELSE IF (IF Has(doc, field) THEN doc[field] ELSE Null) = e.v
                 THEN "true" ELSE "false"

\* deepMatch, 485-510. The predicate of the entry added last is the first
\* operand of and(); an object without entries gives {}, which filter()
\* matches against every document.
RECURSIVE DeepMatch(_, _)
DeepMatch(doc, match) ==
    IF match = <<>> THEN "true"
    ELSE LET last == EntryMatch(doc, match[Len(match)])
         IN  IF last = "true"
               THEN DeepMatch(doc, SubSeq(match, 1, Len(match) - 1))
               ELSE last

\* R.or(...filters), 751 and 764: the first operand that is not false.
RECURSIVE OrMatch(_, _)
OrMatch(doc, matches) ==
    IF matches = <<>> THEN "false"
    ELSE LET first == DeepMatch(doc, Head(matches))
         IN  IF first = "false" THEN OrMatch(doc, Tail(matches)) ELSE first

\* R.and(...filters), 777: the first operand that is not true.
RECURSIVE AndMatch(_, _)
AndMatch(doc, matches) ==
    IF matches = <<>> THEN "true"
    ELSE LET first == DeepMatch(doc, Head(matches))
         IN  IF first = "true" THEN AndMatch(doc, Tail(matches)) ELSE first

\* The backend's order of values: by type (null, number, object, string),
\* numbers by size, the strings of the model alphabetically.
StrRank(str) == CASE str = "alice" -> 1 [] str = "bob" -> 2 [] OTHER -> 3
ValueRank(v) ==
    CASE v.t = "null" -> 10
      [] v.t = "num"  -> 20 + v.n
      [] v.t = "obj"  -> 40
      [] OTHER        -> 50 + StrRank(v.s)

\* dotPropRethinkKey(key).gt(min) and the like, 795-805, on one document.
RangeMatch(doc, key, cmp, bound) ==
    LET field == DotPropRethinkKey(key)
    IN  IF ~Has(doc, field) THEN "missing"
        ELSE LET x == ValueRank(doc[field])
                 y == ValueRank(bound)
             IN  IF CASE cmp = "gt"  -> x > y
                      [] cmp = "gte" -> x >= y
                      [] cmp = "lt"  -> x < y
                      [] OTHER      -> x <= y
                   THEN "true" ELSE "false"

\* dotPropRethinkKey(key).default(null).ne(val), 724 and 729.
NeMatch(doc, key, val) ==
    LET field == DotPropRethinkKey(key)
    IN  IF (IF Has(doc, field) THEN doc[field] ELSE Null) # val
          THEN "true" ELSE "false"

\* dotPropRethinkKey(arrKey).contains(...), 716-721: the documents of the
\* model hold no array, so the field is missing or of the wrong type.
ElemMatch(doc, arrKey) ==
    IF ~Has(doc, DotPropRethinkKey(arrKey)) THEN "missing" ELSE "error"

\* A cursor is what running it yields: the documents in order, or an error.
Cursor(docs) == [docs |-> docs, err |-> FALSE]
ErrorCursor == [docs |-> <<>>, err |-> TRUE]

\* The documents whose verdict is "true", in order.
RECURSIVE Kept(_, _)
Kept(docs, verdict) ==
    IF docs = <<>> THEN <<>>
    ELSE Kept(SubSeq(docs, 1, Len(docs) - 1), verdict)
           \o (IF verdict[Len(docs)] = "true" THEN <<docs[Len(docs)]>> ELSE <<>>)

\* cursor.filter(predicate), given the predicate's verdict on each document
\* of the cursor.
FilterBy(cursor, verdict) ==
    IF cursor.err \/ \E i \in 1..Len(cursor.docs) : verdict[i] = "error"
      THEN ErrorCursor
      ELSE Cursor(Kept(cursor.docs, verdict))

\* cursor.filter(deepMatch(match)), 712.
Filter(cursor, match) ==
    FilterBy(cursor, [i \in 1..Len(cursor.docs) |-> DeepMatch(cursor.docs[i], match)])

\* nin, 728-730: one filter per value.
RECURSIVE NinFilter(_, _, _)
NinFilter(cursor, key, vals) ==
    IF vals = <<>> THEN cursor
    ELSE NinFilter(FilterBy(cursor, [j \in 1..Len(cursor.docs) |->
                   NeMatch(cursor.docs[j], key, Head(vals))]),
                   key, Tail(vals))

\* The backend's secondary index: a document is indexed under the value of
\* the index's field (one field) or the array of the values of its fields
\* (several), and is not in the index when a field is missing or holds a
\* value that is no index key (null, an object).
Indexable(doc, field) == Has(doc, field) /\ doc[field].t \in {"num", "str"}

IndexKeyOf(doc, fields) == [i \in 1..Len(fields) |-> doc[fields[i]]]

\* What the backend does with a lookup value that is no index key (null, a
\* regular expression): it finds no document under it, or it refuses it.
BadKeyOutcomes == {"none", "error"}

\* cursor.getAll(values[0] | values, {index: name}), 703-709: the documents
\* indexed under the given value(s).
GetAll(cursor, values, name, idx, badKey) ==
    IF cursor.err \/ name \notin DOMAIN idx THEN ErrorCursor
    ELSE IF badKey = "error"
            /\ \E i \in 1..Len(values) : values[i].t \notin {"num", "str"}
      THEN ErrorCursor
    ELSE LET fields == idx[name]
         IN  Cursor(SelectSeq(cursor.docs, LAMBDA d :
                 /\ \A i \in 1..Len(fields) : Indexable(d, fields[i])
                 /\ Len(values) = Len(fields)
                 /\ IndexKeyOf(d, fields) = values))

\* cursor.getAll(R.args(vals), {index: key}), 733: the documents indexed
\* under each of the values in turn; none when there is no value.
RECURSIVE GetAllArgs(_, _, _, _, _)
GetAllArgs(cursor, vals, name, idx, badKey) ==
    IF cursor.err \/ name \notin DOMAIN idx THEN ErrorCursor
    ELSE IF vals = <<>> THEN Cursor(<<>>)
    ELSE LET first == GetAll(cursor, <<Head(vals)>>, name, idx, badKey)
             rest == GetAllArgs(cursor, Tail(vals), name, idx, badKey)
         IN  IF first.err \/ rest.err THEN ErrorCursor
             ELSE Cursor(first.docs \o rest.docs)

\* The place of a document in an order by field: documents without the
\* field come first.
SortRank(doc, field) == IF Has(doc, field) THEN ValueRank(doc[field]) ELSE 0

RECURSIVE InsertDoc(_, _, _, _)
InsertDoc(d, sorted, field, desc) ==
    IF sorted = <<>> THEN <<d>>
    ELSE IF (IF desc THEN SortRank(d, field) > SortRank(Head(sorted), field)
                     ELSE SortRank(d, field) < SortRank(Head(sorted), field))
      THEN <<d>> \o sorted
      ELSE <<Head(sorted)>> \o InsertDoc(d, Tail(sorted), field, desc)

RECURSIVE SortDocs(_, _, _)
SortDocs(docs, field, desc) ==
    IF docs = <<>> THEN <<>>
    ELSE InsertDoc(docs[Len(docs)],
                   SortDocs(SubSeq(docs, 1, Len(docs) - 1), field, desc),
                   field, desc)

\* cursor.orderBy(R.asc | R.desc (dotPropRethinkKey(sortKey))), 791; equal
\* documents are taken to keep their order.
OrderBy(cursor, sortKey, desc) ==
    IF cursor.err THEN cursor
    ELSE Cursor(SortDocs(cursor.docs, DotPropRethinkKey(sortKey), desc))

\* cursor.orderBy({index: R.asc | R.desc (sortKey)}), 788: the documents the
\* index holds, in the order of the index.
OrderByIndex(cursor, sortKey, desc, idx) ==
    IF cursor.err \/ sortKey \notin DOMAIN idx THEN ErrorCursor
    ELSE LET fields == idx[sortKey]
             held == SelectSeq(cursor.docs, LAMBDA d :
                         \A i \in 1..Len(fields) : Indexable(d, fields[i]))
         IN  Cursor(SortDocs(held, fields[1], desc))

Min(x, y) == IF x < y THEN x ELSE y

\* cursor.limit(limitAmount), 781.
Limit(cursor, limitAmount) ==
    IF cursor.err THEN cursor
    ELSE Cursor(SubSeq(cursor.docs, 1, Min(limitAmount, Len(cursor.docs))))

\* cursor.skip(skipAmount), 784.
Skip_FromN(cursor, skipAmount) ==
    IF cursor.err THEN cursor
    ELSE Cursor(SubSeq(cursor.docs, IF skipAmount = 0 THEN 1 ELSE skipAmount,
                       Len(cursor.docs)))

Skip(cursor, skipAmount) ==
    IF cursor.err THEN cursor
    ELSE Cursor(SubSeq(cursor.docs, skipAmount + 1, Len(cursor.docs)))

\* The query points of a descriptor.
NoPt == [type |-> "none", filter |-> <<>>, skipAmount |-> 0, limitAmount |-> 0,
         key |-> "", val |-> Null, vals |-> <<>>, matches |-> <<>>,
         sortKey |-> "", desc |-> FALSE, min |-> Null, max |-> Null,
         arrKey |-> ""]
FilterPt(f) == [NoPt EXCEPT !.type = "filter", !.filter = f]
SkipPt(n) == [NoPt EXCEPT !.type = "skip", !.skipAmount = n]
LimitPt(n) == [NoPt EXCEPT !.type = "limit", !.limitAmount = n]
ElemPt(arrKey, f) == [NoPt EXCEPT !.type = "elem", !.arrKey = arrKey, !.filter = f]
NePt(key, val) == [NoPt EXCEPT !.type = "ne", !.key = key, !.val = val]
NinPt(key, vals) == [NoPt EXCEPT !.type = "nin", !.key = key, !.vals = vals]
InPt(key, vals) == [NoPt EXCEPT !.type = "in", !.key = key, !.vals = vals]
WhereOrPt(matches) == [NoPt EXCEPT !.type = "whereOr", !.matches = matches]
WhereAndPt(matches) == [NoPt EXCEPT !.type = "whereAnd", !.matches = matches]
SortPt(sortKey, desc) == [NoPt EXCEPT !.type = "sort", !.sortKey = sortKey, !.desc = desc]
GtPt(key, min) == [NoPt EXCEPT !.type = "gt", !.key = key, !.min = min]
GtePt(key, min) == [NoPt EXCEPT !.type = "gte", !.key = key, !.min = min]
LtPt(key, max) == [NoPt EXCEPT !.type = "lt", !.key = key, !.max = max]
LtePt(key, max) == [NoPt EXCEPT !.type = "lte", !.key = key, !.max = max]

\* 698-700: the filter's values in the localeCompare order of their keys.
SortedValues(filter) ==
    LET sorted == SortBy(filter, LocaleRank)
    IN  [i \in 1..Len(sorted) |-> sorted[i].v]

\* The types _queryToCursor has a branch for, 691-803.
KnownTypes ==
    {"filter", "elem", "ne", "nin", "in", "whereOr", "whereAnd", "limit",
     "skip", "sort", "gt", "lt", "gte", "lte"}

\* _queryToCursor, 690-806: the cursor method the branch taken for a query
\* point calls: "getAll" and "orderByIndex" go through an index, "filter"
\* and "orderBy" scan, "none" leaves the cursor as it is.
AccessPath_AnyPosition(pt, cursorIsTable, registry) ==
    CASE pt.type = "filter" ->
           IF RethinkIndexName(pt.filter) \in registry THEN "getAll" ELSE "filter"
      [] pt.type = "in" ->
           IF pt.key \in registry THEN "getAll"
           ELSE IF pt.vals = <<>> THEN "none" ELSE "filter"
      [] pt.type = "sort" ->
           IF pt.sortKey \in registry THEN "orderByIndex" ELSE "orderBy"
      [] pt.type \in {"elem", "ne", "gt", "lt", "gte", "lte"} -> "filter"
      [] pt.type = "nin" -> IF pt.vals = <<>> THEN "none" ELSE "filter"
      [] pt.type \in {"whereOr", "whereAnd"} ->
           IF pt.matches = <<>> THEN "none" ELSE "filter"
      [] pt.type \in {"limit", "skip"} -> pt.type
      [] OTHER -> "none"

AccessPath(pt, cursorIsTable, registry) ==
    CASE pt.type = "filter" ->
           IF cursorIsTable /\ RethinkIndexName(pt.filter) \in registry
             THEN "getAll" ELSE "filter"
      [] pt.type = "in" ->
           IF cursorIsTable /\ pt.key \in registry THEN "getAll"
           ELSE IF pt.vals = <<>> THEN "none" ELSE "filter"
      [] pt.type = "sort" ->
           IF cursorIsTable /\ pt.sortKey \in registry
             THEN "orderByIndex" ELSE "orderBy"
      [] pt.type \in {"elem", "ne", "gt", "lt", "gte", "lte"} -> "filter"
      [] pt.type = "nin" -> IF pt.vals = <<>> THEN "none" ELSE "filter"
      [] pt.type \in {"whereOr", "whereAnd"} ->
           IF pt.matches = <<>> THEN "none" ELSE "filter"
      [] pt.type \in {"limit", "skip"} -> pt.type
      [] OTHER -> "none"

\* _queryToCursor, 690-810: one query point applied to the cursor.
\* registry is this._indexes.get(collectionId); idx the backend's indexes.
\* A point of no known type leaves the cursor as it is.
ApplyPt(cursor, pt, cursorIsTable, registry, idx, badKey) ==
    LET path == AccessPath(pt, cursorIsTable, registry)
    IN  CASE path = "none" -> cursor
          [] path = "limit" -> Limit(cursor, pt.limitAmount)
          [] path = "skip" -> Skip(cursor, pt.skipAmount)
          [] path = "orderBy" -> OrderBy(cursor, pt.sortKey, pt.desc)
          [] path = "orderByIndex" ->
               OrderByIndex(cursor, pt.sortKey, pt.desc, idx)
          [] path = "getAll" /\ pt.type = "filter" ->
               GetAll(cursor, SortedValues(pt.filter),
                      RethinkIndexName(pt.filter), idx, badKey)
          [] path = "getAll" /\ pt.type = "in" ->
               GetAllArgs(cursor, pt.vals, pt.key, idx, badKey)
          [] pt.type = "filter" -> Filter(cursor, pt.filter)
          [] pt.type = "elem" ->
               FilterBy(cursor, [j \in 1..Len(cursor.docs) |->
                   ElemMatch(cursor.docs[j], pt.arrKey)])
          [] pt.type = "ne" ->
               FilterBy(cursor, [j \in 1..Len(cursor.docs) |->
                   NeMatch(cursor.docs[j], pt.key, pt.val)])
          [] pt.type = "nin" -> NinFilter(cursor, pt.key, pt.vals)
          [] pt.type = "in" ->
               FilterBy(cursor, [j \in 1..Len(cursor.docs) |->
                   OrMatch(cursor.docs[j], [i \in 1..Len(pt.vals) |->
                                  <<Entry(pt.key, pt.vals[i])>>])])
          [] pt.type = "whereOr" ->
               FilterBy(cursor, [j \in 1..Len(cursor.docs) |->
                   OrMatch(cursor.docs[j], pt.matches)])
          [] pt.type = "whereAnd" ->
               FilterBy(cursor, [j \in 1..Len(cursor.docs) |->
                   AndMatch(cursor.docs[j], pt.matches)])
          [] pt.type \in {"gt", "gte"} ->
               FilterBy(cursor, [j \in 1..Len(cursor.docs) |->
                   RangeMatch(cursor.docs[j], pt.key, pt.type, pt.min)])
          [] OTHER ->
               FilterBy(cursor, [j \in 1..Len(cursor.docs) |->
                   RangeMatch(cursor.docs[j], pt.key, pt.type, pt.max)])

\* _queryToCursor, 683-814: the points applied in order; only the first one
\* sees the cursor as the table.
RECURSIVE QueryToCursor(_, _, _, _, _)
QueryToCursor(t, pts, registry, idx, badKey) ==
    IF pts = <<>> THEN Cursor(t)
    ELSE ApplyPt(QueryToCursor(t, SubSeq(pts, 1, Len(pts) - 1), registry, idx,
                               badKey),
                 pts[Len(pts)], Len(pts) = 1, registry, idx, badKey)

\* The cursor methods _queryToCursor calls for the points of a descriptor,
\* in order.
PlanOf(pts, registry) ==
    [i \in 1..Len(pts) |-> AccessPath(pts[i], i = 1, registry)]

\* find, 859-868: the documents of the cursor, each through _handleRawModel.
FindResult(t, pts, registry, idx, badKey) ==
    LET cursor == QueryToCursor(t, pts, registry, idx, badKey)
    IN  IF cursor.err
          THEN [NoResult EXCEPT !.kind = "error", !.plan = PlanOf(pts, registry)]
        ELSE [NoResult EXCEPT !.kind = "records",
                !.plan = PlanOf(pts, registry),
                !.recs = [i \in 1..Len(cursor.docs) |->
                             HandleRawModel(Raw(cursor.docs[i]))]]


\* ------------------------------------------------------------ SpecQuery
\* A collection that is ready and holds documents, the declaration of
\* indexes on it, and one find. find changes neither the table nor the
\* registry, so a run ends with it: a further call would start from the
\* program state this one started from.

DocIds == <<"d1", "d2", "d3", "d4", "d5">>

\* The fields of a stored document besides its primary key.
DocShapes ==
    { NoFields,
      With(NoFields, "a", Null),
      With(With(NoFields, "a", Str("alice")), "b", Num(1)),
      With(NoFields, "a", Str("bob")) }

QueryTables ==
    UNION { { [i \in 1..len |-> With(shape[i], "id", Str(DocIds[i]))] :
                shape \in [1..len -> DocShapes] } : len \in 0..MaxDocs }

\* The filters of the model: on a, on b, and on both in either order of
\* insertion; the values are literals, null and regular expressions.
FilterValues(k) ==
    IF k = "a" THEN {Null, Str("alice"), RegExp("^A", "i"), RegExp("^b", "")}
    ELSE {Num(1)}

OneKeyFilters ==
    {<<>>}
    \cup { <<Entry("a", v)>> : v \in FilterValues("a") }
    \cup { <<Entry("b", v)>> : v \in FilterValues("b") }

Filters ==
    OneKeyFilters
    \cup { <<Entry("a", v), Entry("b", w)>> :
             v \in FilterValues("a"), w \in FilterValues("b") }
    \cup { <<Entry("b", w), Entry("a", v)>> :
             v \in FilterValues("a"), w \in FilterValues("b") }

\* A query point whose type is none the plug knows.
UnknownPt == [NoPt EXCEPT !.type = "bogus"]

\* The filtering and range points that are stacked in pairs.
PurePts ==
    { FilterPt(<<Entry("a", Str("alice"))>>),
      FilterPt(<<Entry("a", RegExp("^A", "i"))>>),
      FilterPt(<<Entry("b", Num(1))>>),
      NePt("a", Str("alice")),
      NinPt("a", <<Str("alice"), Str("bob")>>),
      InPt("a", <<Str("alice")>>),
      GtPt("b", Num(0)), GtePt("b", Num(1)),
      LtPt("b", Num(2)), LtePt("b", Num(1)) }

\* Descriptors of one or two points of the remaining kinds.
OtherQueries ==
    { <<x>> : x \in PurePts }
    \cup { <<xy[1], xy[2]>> : xy \in {z \in PurePts \X PurePts : z[1] # z[2]} }
    \cup { <<InPt("a", vals)>> :
             vals \in {<<>>, <<Null>>, <<Str("alice"), Str("bob")>>} }
    \cup { <<NinPt("a", <<>>)>>, <<ElemPt("a", <<>>)>> }
    \cup { <<WhereOrPt(m)>> :
             m \in { <<>>, <<<<Entry("a", Str("alice"))>>>>,
                     <<<<Entry("a", Str("alice"))>>, <<Entry("b", Num(1))>>>>,
                     <<<<Entry("a", RegExp("^A", "i"))>>, <<Entry("b", Num(1))>>>> } }
    \cup { <<WhereAndPt(m)>> :
             m \in { <<>>, <<<<Entry("a", Str("alice"))>>>>,
                     <<<<Entry("a", Str("alice"))>>, <<Entry("b", Num(1))>>>> } }
    \cup { <<SortPt("a", desc)>> : desc \in BOOLEAN }
    \cup { <<FilterPt(<<Entry("b", Num(1))>>), SortPt("a", FALSE)>> }
    \cup { <<UnknownPt>>,
           <<FilterPt(<<Entry("a", Str("alice"))>>), UnknownPt>>,
           <<UnknownPt, FilterPt(<<Entry("a", Str("alice"))>>)>> }
    \cup { <<SkipPt(n), SkipPt(m)>> : n \in 1..MaxSkip, m \in 1..MaxSkip }
    \cup { <<LimitPt(n), LimitPt(m)>> : n \in 1..MaxLimit, m \in 1..MaxLimit }

\* The descriptors of the model: a filter, a filter on at most one key paged
\* by skip then limit, a filter behind another, and the descriptors above.
Queries ==
    OtherQueries \cup
    { <<FilterPt(f)>> : f \in Filters }
    \cup { <<FilterPt(f), SkipPt(n), LimitPt(m)>> :
             f \in OneKeyFilters, n \in 0..MaxSkip, m \in 0..MaxLimit }
    \cup { <<FilterPt(<<Entry("b", Num(1))>>), FilterPt(<<Entry("a", v)>>)>> :
             v \in FilterValues("a") }

\* The keyMaps given to createIndex.
KeyMaps ==
    { <<Entry("a", Num(1))>>,
      <<Entry("a", Num(1)), Entry("b", Num(1))>>,
      <<Entry("b", Num(1)), Entry("a", Num(1))>> }

InitQuery ==
    /\ InitAsync
    /\ tableExists
    /\ backendIndex = "none"
    /\ table \in QueryTables
    /\ indexFields = <<>>
    /\ call = NoCall
    /\ result = NoResult
    /\ written = NoWritten

\* createIndex, 589-620, run to its end on a ready collection: the name
\* enters the registry, the backend builds the index over the sorted keys
\* (each through dotPropRethinkKey) unless it has one of that name.
CreateIndex(keyMap) ==
    LET name == RethinkIndexName(keyMap)
        keys == SortedKeys(keyMap)
        fields == [i \in 1..Len(keys) |-> DotPropRethinkKey(keys[i])]
    IN  /\ call.op # "find"
        /\ indexes' = indexes \cup {name}
        /\ indexFields' = IF name \in DOMAIN indexFields THEN indexFields
                          ELSE With(indexFields, name, fields)
        /\ call' = [NoCall EXCEPT !.op = "createIndex"]
        /\ result' = NoResult
        /\ UNCHANGED <<table, written, asyncRest>>

\* find, 859-868.
Find(query, badKey) ==
    /\ call.op # "find"
    /\ result' = FindResult(table, query, indexes, indexFields, badKey)
    /\ call' = [NoCall EXCEPT !.op = "find", !.query = query, !.badKey = badKey]
    /\ UNCHANGED <<table, written, indexFields, asyncVars>>

NextQuery ==
    \/ \E keyMap \in KeyMaps : CreateIndex(keyMap)
    \/ \E query \in Queries, badKey \in BadKeyOutcomes : Find(query, badKey)

SpecQuery == InitQuery /\ [][NextQuery]_vars


\* ----------------------------------------------------------- SpecNaming
\* Indexes and filters over keys of mixed letter case: the declaration of
\* indexes on a populated collection, and one find by a filter.

NamingShapes ==
    { With(With(NoFields, "a", Str("alice")), "B", Str("bob")),
      With(With(NoFields, "a", Str("bob")), "B", Str("alice")),
      With(NoFields, "a", Str("alice")) }

NamingTables ==
    UNION { { [i \in 1..len |-> With(shape[i], "id", Str(DocIds[i]))] :
                shape \in [1..len -> NamingShapes] } : len \in 0..MaxDocs }

NamingKeyMaps ==
    { <<Entry("a", Num(1))>>, <<Entry("B", Num(1))>>,
      <<Entry("a", Num(1)), Entry("B", Num(1))>>,
      <<Entry("B", Num(1)), Entry("a", Num(1))>>,
      <<Entry("b", Num(1)), Entry("a", Num(1))>> }

NamingFilters ==
    { <<Entry("a", v)>> : v \in {Str("alice"), Str("bob")} }
    \cup { <<Entry("a", v), Entry("B", w)>> :
             v \in {Str("alice"), Str("bob")}, w \in {Str("alice"), Str("bob")} }
    \cup { <<Entry("B", w), Entry("a", v)>> :
             v \in {Str("alice"), Str("bob")}, w \in {Str("alice"), Str("bob")} }
    \cup { <<Entry("a", Str("alice")), Entry("b", Num(1))>> }

InitNaming ==
    /\ InitAsync
    /\ tableExists
    /\ backendIndex = "none"
    /\ table \in NamingTables
    /\ indexFields = <<>>
    /\ call = NoCall
    /\ result = NoResult
    /\ written = NoWritten

NextNaming ==
    \/ \E keyMap \in NamingKeyMaps : CreateIndex(keyMap)
    \/ \E f \in NamingFilters, badKey \in BadKeyOutcomes :
          Find(<<FilterPt(f)>>, badKey)

SpecNaming == InitNaming /\ [][NextNaming]_vars


\* ------------------------------------------------ claims on the async life

\* C1: however many initCollection calls are made for one collection id, and
\* however they interleave, at most one tableCreate command is issued for the
\* id and one readiness promise is shared by all callers.
C1_SingleCreationAttempt == createCalls <= 1 /\ futuresMade <= 1

\* C2: no public operation sends a command against the collection's table
\* while the readiness promise stored for the collection is still pending.
C2_NoCommandBeforeReady == \A p \in Procs : ~sentPending[p]

C4_NoLookupBeforeIndexBuilt == \A p \in Procs : ~lookupUnbuilt[p]

\* C9: whenever the backend reports that the table or the index already
\* exists (and no other failure strikes the call), the readiness promise of
\* the call does not reject and the call does not fail.
C9_ExistsConflictSwallowed ==
    \A p \in Procs :
        (existsErr[p] /\ ~otherFailure[p]) =>
            (futState[p] # "rejected" /\ outcome[p] # "failed")

\* C10: a backend failure that is no already-exists conflict, met while an
\* operation runs, fails that operation: the operation does not report
\* success to its caller.
C10_FailureReachesCaller ==
    \A p \in Procs : otherFailure[p] => outcome[p] # "ok"

\* C18: readiness lifecycle. Once a readiness entry exists for the
\* collection it is never removed and never replaced by another future, and
\* a future that has resolved stays resolved.
C18_ReadinessEntryKept ==
    [][ /\ preparedTables # NoFuture => preparedTables' = preparedTables
        /\ \A p \in Procs : futState[p] = "resolved" => futState'[p] = "resolved"
      ]_vars

\* ------------------------------------------- claims on the by-id operations

\* The object of the document stored under the id of the last call, as
\* findById would return it.
StoredObject == HandleRawModel(TableGet(table, call.id)).object

\* C6 as stated: a record whose object has no key "id", stored with
\* replaceById and read back with findById, comes back as {id, object}.
C6_RoundTripNoNativeKey ==
    (call.op = "findById" /\ written.valid /\ call.id = written.id
        /\ ~Has(written.object, "id")) =>
            result.rec = [found |-> TRUE, id |-> written.id,
                          object |-> written.object]

\* C6 as amended: a record whose object has neither a key "id" nor a key
\* "_id", stored with replaceById and read back with findById, comes back as
\* exactly {id, object}.
C6_RoundTripNoIdKeys ==
    (call.op = "findById" /\ written.valid /\ call.id = written.id
        /\ ~Has(written.object, "id") /\ ~Has(written.object, "_id")) =>
            result.rec = [found |-> TRUE, id |-> written.id,
                          object |-> written.object]

\* C6 witness: a record with two fields, one of them a nested object, has
\* been stored and read back.
C6_Witness ==
    /\ call.op = "findById" /\ written.valid /\ call.id = written.id
    /\ DOMAIN written.object = {"a", "b"}
    /\ written.object["a"].t = "obj"
    /\ result.rec.found

\* C7 as stated: after updateById, every changed top-level key that the new
\* object leaves undefined is absent from the stored document, and every
\* other changed top-level key holds the new object's value.
C7_ChangedKeysStored ==
    (call.op = "updateById" /\ TableGet(table, call.id).found) =>
        \A k \in TopLevelUpdates(call.changed) :
            IF ~Has(call.object, k)
              THEN ~Has(StoredObject, k)
              ELSE Has(StoredObject, k) /\ StoredObject[k] = call.object[k]

\* The value the backend's update leaves in a field that held old (when
\* hadOld) and is given new.
MergedValue(hadOld, old, new) ==
    IF hadOld /\ old.t = "obj" /\ new.t = "obj"
      THEN Obj(DeepMerge(old.o, new.o)) ELSE new

\* C7 as amended: after updateById on a stored document, for every changed
\* top-level key other than "id" and "_id": a key the new object leaves
\* undefined is absent from the stored document; a key whose new value is
\* not an object (null included) holds that value; a key whose new value is
\* an object holds the new value merged into the object stored before (the
\* new value itself when the field was absent or not an object).
C7_ChangedKeysMerged ==
    (call.op = "updateById" /\ TableGet(table, call.id).found) =>
        \A k \in TopLevelUpdates(call.changed) \ {"id", "_id"} :
            IF ~Has(call.object, k)
              THEN ~Has(StoredObject, k)
              ELSE /\ Has(StoredObject, k)
                   /\ StoredObject[k] =
                        MergedValue(Has(call.before.doc, k),
                                    IF Has(call.before.doc, k)
                                      THEN call.before.doc[k] ELSE Null,
                                    call.object[k])

\* C7 witness: an update that names "a" and "b" as changed, sets "a" and
\* leaves "b" undefined, on a document that held both fields.
C7_Witness ==
    /\ call.op = "updateById" /\ TableGet(table, call.id).found
    /\ TopLevelUpdates(call.changed) = {"a", "b"}
    /\ Has(call.object, "a") /\ ~Has(call.object, "b")
    /\ Has(call.before.doc, "a") /\ Has(call.before.doc, "b")
    /\ call.before.doc["a"] # call.object["a"]

\* The object of the stored document before the call.
ObjectBefore == HandleRawModel(call.before).object

\* C19: updateById is a partial update. Every field of the stored document
\* whose top-level key is not named as changed keeps its previous value (or
\* stays absent), whatever the object passed in holds for it.
C19_UnchangedFieldsKept ==
    (call.op = "updateById" /\ call.before.found) =>
        \A k \in (DOMAIN ObjectBefore \cup DOMAIN StoredObject)
                    \ TopLevelUpdates(call.changed) :
            /\ Has(StoredObject, k) <=> Has(ObjectBefore, k)
            /\ Has(StoredObject, k) => StoredObject[k] = ObjectBefore[k]

\* ------------------------------------------------- claims on the queries

\* What the same find returns when no index is registered.
ScanResult == FindResult(table, call.query, {}, <<>>, call.badKey)

RecordSet(res) == {res.recs[i] : i \in 1..Len(res.recs)}

\* C5: index transparency. For every table content and every filter
\* (literals, null, regular expressions), find returns the same set of
\* records with the index registered as it does by the deep-match scan.
C5_IndexTransparency ==
    call.op = "find" =>
        /\ result.kind = ScanResult.kind
        /\ RecordSet(result) = RecordSet(ScanResult)

\* The descriptor of the call without its last two points.
Prefix == SubSeq(call.query, 1, Len(call.query) - 2)

EndsWithSkipLimit ==
    /\ call.op = "find"
    /\ Len(call.query) >= 2
    /\ call.query[Len(call.query) - 1].type = "skip"
    /\ call.query[Len(call.query)].type = "limit"

SkipAmount == call.query[Len(call.query) - 1].skipAmount
LimitAmount == call.query[Len(call.query)].limitAmount

\* The filtered result sequence S the paging applies to.
Unpaged == FindResult(table, Prefix, indexes, indexFields, call.badKey)

\* C8: pagination composition. When a descriptor ends with skip(n) then
\* limit(m) and the points before them give the sequence S, find returns
\* S[n .. n+m): the records at positions n+1 .. min(n+m, |S|) of S, and the
\* empty array when n >= |S|.
C8_SkipLimitIsSlice ==
    (EndsWithSkipLimit /\ Unpaged.kind = "records") =>
        /\ result.kind = "records"
        /\ Len(result.recs) = Min(LimitAmount,
                                  IF SkipAmount >= Len(Unpaged.recs) THEN 0
                                  ELSE Len(Unpaged.recs) - SkipAmount)
        /\ \A i \in 1..Len(result.recs) :
              result.recs[i] = Unpaged.recs[SkipAmount + i]
        /\ SkipAmount >= Len(Unpaged.recs) => result.recs = <<>>

\* A paged find whose slice is cut at both ends: records are skipped, the
\* limit is reached and records are left behind it.
C8_Witness ==
    /\ EndsWithSkipLimit
    /\ Unpaged.kind = "records"
    /\ SkipAmount >= 1
    /\ LimitAmount >= 1
    /\ Len(Unpaged.recs) > SkipAmount + LimitAmount
    /\ Len(result.recs) = LimitAmount

\* A paged find that skips past the end of S.
C8_WitnessPastEnd ==
    /\ EndsWithSkipLimit
    /\ Unpaged.kind = "records"
    /\ Len(Unpaged.recs) >= 1
    /\ SkipAmount >= Len(Unpaged.recs)
    /\ result.recs = <<>>

\* C11: a descriptor holding an operation whose type is not a supported kind
\* makes the translation fail; the operation is never skipped silently.
C11_UnsupportedTypeFails ==
    (call.op = "find"
        /\ \E i \in 1..Len(call.query) : call.query[i].type \notin KnownTypes) =>
            result.kind = "error"

\* The records of the stored documents at the given positions.
RecordsAt(positions) == {HandleRawModel(Raw(table[i])) : i \in positions}

\* C12: missing-field equality. A filter mapping x to null selects every
\* document in which x is absent or null and no other document.
C12_NullMatchesMissing ==
    (call.op = "find" /\ Len(call.query) = 1 /\ call.query[1].type = "filter"
        /\ Len(call.query[1].filter) = 1 /\ call.query[1].filter[1].v = Null) =>
            LET x == DotPropRethinkKey(call.query[1].filter[1].k)
            IN  /\ result.kind = "records"
                /\ RecordSet(result) =
                     RecordsAt({j \in 1..Len(table) :
                                  ~Has(table[j], x) \/ table[j][x] = Null})

\* The candidate index name of an operation: its keys sorted and joined.
CandidateName(pt) ==
    CASE pt.type = "filter" -> RethinkIndexName(pt.filter)
      [] pt.type = "in"     -> RethinkIndexName(<<Entry(pt.key, Null)>>)
      [] OTHER              -> RethinkIndexName(<<Entry(pt.sortKey, Null)>>)

\* C13: index eligibility. An index-scoped lookup or index-ordered sort is
\* issued for an operation if and only if it is a filter, in or sort
\* operation, it is the first of the descriptor and the registry holds its
\* candidate name; every later operation and every range operation scans.
C13_IndexOnlyFirstAndRegistered ==
    call.op = "find" =>
        \A i \in 1..Len(call.query) :
            (result.plan[i] \in {"getAll", "orderByIndex"})
              <=> /\ i = 1
                  /\ call.query[i].type \in {"filter", "in", "sort"}
                  /\ CandidateName(call.query[i]) \in indexes

\* C13 witness: a descriptor whose first operation goes through the index
\* and whose second operation, on the same registered key, scans.
C13_Witness ==
    /\ call.op = "find"
    /\ Len(call.query) = 2
    /\ result.plan[1] = "getAll"
    /\ call.query[2].type \in {"filter", "in"}
    /\ CandidateName(call.query[2]) \in indexes
    /\ result.plan[2] = "filter"

\* What find returns for another descriptor in the state of the call.
ResultOf(pts) == FindResult(table, pts, indexes, indexFields, call.badKey)

\* C15: of several skip operations, or several limit operations, the first
\* fixes the pagination: the later one changes neither offset nor cap.
C15_FirstSkipLimitFixes ==
    (call.op = "find" /\ Len(call.query) = 2
        /\ call.query[1].type \in {"skip", "limit"}
        /\ call.query[2].type = call.query[1].type) =>
            result.recs = ResultOf(<<call.query[1]>>).recs

\* C16: an in operation selects exactly the documents whose property equals
\* a member of vals (a document without the property may count as equal to
\* null), and a whereOr operation exactly the documents that satisfy at
\* least one of its maps, the empty set and the empty list included.
C16_InAndOrSelectExactly ==
    (call.op = "find" /\ Len(call.query) = 1
        /\ call.query[1].type \in {"in", "whereOr"}) =>
            LET pt == call.query[1]
                x == DotPropRethinkKey(pt.key)
                vals == {pt.vals[i] : i \in 1..Len(pt.vals)}
            IN  /\ result.kind = "records"
                /\ pt.type = "in" =>
                     /\ RecordsAt({j \in 1..Len(table) :
                                      Has(table[j], x) /\ table[j][x] \in vals})
                          \subseteq RecordSet(result)
                     /\ RecordSet(result) \subseteq
                          RecordsAt({j \in 1..Len(table) :
                              IF Has(table[j], x) THEN table[j][x] \in vals
                              ELSE Null \in vals})
                /\ pt.type = "whereOr" =>
                     RecordSet(result) =
                       RecordsAt({j \in 1..Len(table) :
                                    \E i \in 1..Len(pt.matches) :
                                       DeepMatch(table[j], pt.matches[i]) = "true"})

\* The pure filter and range types.
PureTypes == {"filter", "ne", "nin", "in", "gt", "gte", "lt", "lte"}

\* C17: exchanging two pure filter or range operations of a descriptor does
\* not change the set of records find returns, whatever the table and the
\* registry hold.
C17_PureFiltersCommute ==
    (call.op = "find" /\ Len(call.query) = 2
        /\ call.query[1].type \in PureTypes /\ call.query[2].type \in PureTypes) =>
            LET swapped == ResultOf(<<call.query[2], call.query[1]>>)
            IN  /\ result.kind = swapped.kind
                /\ RecordSet(result) = RecordSet(swapped)

\* The value a filter gives to a key.
ValueOf(filter, k) == (CHOOSE e \in {filter[i] : i \in 1..Len(filter)} : e.k = k).v

\* C14: for every key set, in any insertion order and of mixed letter case,
\* the name of an index created on the keys is the candidate name of a
\* filter on them, and the i-th value given to the index lookup is the
\* filter's value for the i-th key of that name.
C14_ValuesFollowIndexName ==
    (call.op = "find" /\ Len(call.query) = 1 /\ call.query[1].type = "filter") =>
        LET filter == call.query[1].filter
            keys == SortedKeys(filter)
        IN  /\ \A name \in DOMAIN indexFields :
                  {indexFields[name][i] : i \in 1..Len(indexFields[name])}
                     = {DotPropRethinkKey(keys[i]) : i \in 1..Len(keys)}
                  => name = RethinkIndexName(filter)
            /\ result.plan[1] = "getAll" =>
                  \A i \in 1..Len(keys) :
                      SortedValues(filter)[i] = ValueOf(filter, keys[i])

====
